---------------------------- MODULE Spec2Model ----------------------------
(***************************************************************************)
(* ExOrbit (exorbit/orbit.py, exorbit/xy5.py): Kepler solver, sky          *)
(* projection, 5th-order local motion model, orbit table and evaluators.   *)
(*                                                                         *)
(* Every float of the program is a fixed-point number here: an integer     *)
(* count of 1/Scale (angles in milliradians, times in millidays, lengths   *)
(* in 1/1000 stellar radii).  Products and quotients round to the nearest  *)
(* count; sums, differences, floor, mod and comparisons are exact.  The    *)
(* time fold of xyo_5s is computed in a floating-point format of MantBits  *)
(* significant bits on top of that, so that times far from the epoch round *)
(* as they do in the program.                                              *)
(***************************************************************************)
EXTENDS Integers, Sequences, FiniteSets, TLC

(***************************************************************************)
(* Fixed-point arithmetic                                                  *)
(***************************************************************************)
Scale == 1000

Abs(x) == IF x < 0 THEN -x ELSE x

\* floor(a / b) for any b # 0 (numpy floor)
Floor(a, b) == IF b > 0 THEN a \div b ELSE (-a) \div (-b)

\* a / b rounded to the nearest integer
RoundDiv(a, b) == Floor(2 * a + b, 2 * b)

\* fixed-point product a*b/Scale rounded to the nearest count, computed as
\* q*b + r*b/Scale with a = q*Scale + r so that a*b itself is never formed
Mul(a, b) == (a \div Scale) * b + RoundDiv((a % Scale) * b, Scale)

\* fixed-point quotient
Div(a, b) == RoundDiv(a * Scale, b)

\* C fmod(x, m): the remainder takes the sign of the dividend
TruncMod(x, m) == IF x < 0 THEN -((-x) % m) ELSE x % m

\* numpy mod(x, m), m > 0: the remainder takes the sign of the divisor
Mod(x, m) == x % m

\* mag * sign(x), where sign(0) = 0
TimesSign(mag, x) == IF x < 0 THEN -Abs(mag) ELSE IF x = 0 THEN 0 ELSE Abs(mag)

\* copysign(mag, x): the magnitude of mag with the sign of x (x = 0 is +0.0)
CopySign(mag, x) == IF x < 0 THEN -Abs(mag) ELSE Abs(mag)

\* integer square root by bisection: the largest r in lo..hi with r*r <= n
RECURSIVE ISqrtIn(_, _, _)
ISqrtIn(n, lo, hi) ==
    IF lo >= hi THEN lo
    ELSE CHOOSE r \in {IF mid * mid <= n THEN ISqrtIn(n, mid, hi)
                                          ELSE ISqrtIn(n, lo, mid - 1) :
                          mid \in {(lo + hi + 1) \div 2}} : TRUE

\* sqrt of a fixed-point number x >= 0: sqrt(x/Scale)*Scale = sqrt(x*Scale)
Sqrt(x) == ISqrtIn(x * Scale, 0, 46340)

Pi == 3142

HALF_PI == Pi \div 2

TWO_PI == 2 * Pi

Min(a, b) == IF a < b THEN a ELSE b

\* x (1 - x2/6 (1 - x2/20 (1 - x2/42))) with x2 = x^2: the series
\* x - x^3/3! + x^5/5! - x^7/7!
SinSeries(x, x2) ==
    Mul(x, Scale - Mul(RoundDiv(x2, 6),
                       Scale - Mul(RoundDiv(x2, 20), Scale - RoundDiv(x2, 42))))

\* sin on [0, pi/2], never above 1
SinQ(x) == Min(Scale, SinSeries(x, Mul(x, x)))

\* sin on [0, 2 pi): the sine of the angle mirrored into [0, pi/2], negated
\* on (pi, 2 pi)
SinR(r) ==
    LET h == IF r > Pi THEN r - Pi ELSE r
        q == IF h > HALF_PI THEN Pi - h ELSE h
    IN  IF r > Pi THEN -SinQ(q) ELSE SinQ(q)

Sin(x) == SinR(x % TWO_PI)

Cos(x) == Sin(x + HALF_PI)

\* the angle in [0, pi/2] of the direction (x, y), x >= 0, y >= 0, by
\* bisection on y*cos(th) - x*sin(th), which decreases with th
RECURSIVE AtanQ(_, _, _, _)
AtanQ(y, x, lo, hi) ==
    IF lo >= hi THEN lo
    ELSE CHOOSE th \in {IF y * Cos(mid) - x * Sin(mid) >= 0
                           THEN AtanQ(y, x, mid, hi)
                           ELSE AtanQ(y, x, lo, mid - 1) :
                           mid \in {(lo + hi + 1) \div 2}} : TRUE

\* the angle in (-pi, pi] of the direction (x, y), both given as values
Atan2In(y, x) ==
    IF x = 0 /\ y = 0 THEN 0
    ELSE CHOOSE r \in {IF x >= 0 THEN (IF y >= 0 THEN th ELSE -th)
                       ELSE (IF y >= 0 THEN Pi - th ELSE th - Pi) :
                          th \in {AtanQ(Abs(y), Abs(x), 0, HALF_PI)}} : TRUE

\* arctan2(y, x) in (-pi, pi]
Atan2(y, x) == CHOOSE th \in {Atan2In(b, a) : b \in {y}, a \in {x}} : TRUE

(***************************************************************************)
(* orbit.py                                                                *)
(***************************************************************************)
\* 1 - e**2
OneMinusE2(e) == Scale - Mul(e, e)

ta_from_ea_s(Ea, e) ==
    LET den == Scale - Mul(e, Cos(Ea))
        sta == Div(Mul(Sqrt(OneMinusE2(e)), Sin(Ea)), den)
        cta == Div(Cos(Ea) - e, den)
    IN  Atan2(sta, cta)

mean_anomaly_offset(e, w) ==
    CHOOSE offset \in {off - Mul(e, Sin(off)) :
                          off \in {Atan2(Mul(Sqrt(OneMinusE2(e)), Sin(HALF_PI - w)),
                                         e + Cos(HALF_PI - w))}} : TRUE

mean_anomaly(t, t0, p, e, w) ==
    LET offset == mean_anomaly_offset(e, w)
    IN  Mod(RoundDiv(TWO_PI * (t - (t0 - RoundDiv(offset * p, TWO_PI))), p), TWO_PI)


\* the Newton iteration of ea_newton_s / ea_newton_v
Tol == 0

MaxIter == 1000

InitErr == 50

\* the loop condition without the iteration cap
NewtonGuardNoCap(err, k) == Abs(err) > Tol

\* while abs(err) > 1e-8 and k < 1000
NewtonGuard(err, k) == Abs(err) > Tol /\ k < MaxIter

\* one pass of the loop body on the locals s = [Ma, Ea, err, k]
NewtonBody(s, e) ==
    LET err == s.Ea - Mul(e, Sin(s.Ea)) - s.Ma
    IN  [Ma  |-> s.Ma,
         err |-> err,
         Ea  |-> s.Ea - Div(err, Scale - Mul(e, Cos(s.Ea))),
         k   |-> s.k + 1]

\* the locals on loop entry: Ea = Ma, err = 0.05, k = 0
NewtonEntry(Ma) == [Ma |-> Ma, Ea |-> Ma, err |-> InitErr, k |-> 0]

\* the while loop run from locals s for at most 2^lev passes
RECURSIVE NewtonWhile(_, _, _)
NewtonWhile(s, e, lev) ==
    IF ~NewtonGuard(s.err, s.k) THEN s
    ELSE IF lev = 0 THEN NewtonBody(s, e)
    ELSE CHOOSE last \in {NewtonWhile(half, e, lev - 1) :
                             half \in {NewtonWhile(s, e, lev - 1)}} : TRUE

\* 2^NewtonLevels passes are at least the MaxIter passes the guard allows
NewtonLevels == 10

ea_newton_s(t, t0, p, e, w) ==
    CHOOSE Ea \in {NewtonWhile(entry, e, NewtonLevels).Ea :
                      entry \in {NewtonEntry(mean_anomaly(t, t0, p, e, w))}} : TRUE

ta_newton_s(t, t0, p, e, w) ==
    CHOOSE Ta \in {ta_from_ea_s(Ea, e) : Ea \in {ea_newton_s(t, t0, p, e, w)}} : TRUE

z_from_ta_s(Ta, a, i, e, w) ==
    LET s  == Sin(w + Ta)
        si == Sin(i)
        z  == Mul(Div(Mul(a, OneMinusE2(e)), Scale + Mul(e, Cos(Ta))),
                  Sqrt(Scale - Mul(Mul(s, s), Mul(si, si))))
    IN  z * CopySign(1, s)

(***************************************************************************)
(* xy5.py                                                                  *)
(***************************************************************************)
\* dt = 2e-2
StencilDt == 20

\* 1/dt
InvDt == Scale \div StencilDt

\* (x, y) of the planet at true anomaly f
PosX(f, ae, e, w) == -Mul(Div(ae, Scale + Mul(e, Cos(f))), Cos(w + f))

PosY(f, ae, e, w, ci) == -Mul(Mul(Div(ae, Scale + Mul(e, Cos(f))), Sin(w + f)), ci)

\* the four central differences of the seven samples f = <<f0, ..., f6>>,
\* coefficients kept as exact fractions
Velocity(f) ==
    RoundDiv(((f[7] - f[1]) + 9 * (f[2] - f[6]) + 45 * (f[5] - f[3])) * InvDt, 60)

Acceleration(f) ==
    RoundDiv((2 * (f[1] + f[7]) - 27 * (f[2] + f[6]) + 270 * (f[3] + f[5]) - 490 * f[4])
             * InvDt * InvDt, 180)

Jerk(f) ==
    RoundDiv(((f[1] - f[7]) + 8 * (f[6] - f[2]) + 13 * (f[3] - f[5])) * InvDt * InvDt, 8) * InvDt

Snap(f) ==
    RoundDiv((-(f[1] + f[7]) + 12 * (f[2] + f[6]) - 39 * (f[3] + f[5]) + 56 * f[4])
             * InvDt * InvDt, 6) * InvDt * InvDt

\* f0, ..., f6: the true anomaly at the seven times of the stencil
StencilAnomalies(phase, p, e, w) ==
    <<ta_newton_s(phase - 3 * StencilDt, 0, p, e, w),
      ta_newton_s(phase - 2 * StencilDt, 0, p, e, w),
      ta_newton_s(phase - StencilDt, 0, p, e, w),
      ta_newton_s(phase, 0, p, e, w),
      ta_newton_s(phase + StencilDt, 0, p, e, w),
      ta_newton_s(phase + 2 * StencilDt, 0, p, e, w),
      ta_newton_s(phase + 3 * StencilDt, 0, p, e, w)>>

\* the ten coefficients from the seven anomalies f
StencilCoefficients(f, a, i, e, w) ==
    LET ae == Mul(a, OneMinusE2(e))
        ci == Cos(i)
        xs == [n \in 1..7 |-> PosX(f[n], ae, e, w)]
        ys == [n \in 1..7 |-> PosY(f[n], ae, e, w, ci)]
    IN  <<xs[4], ys[4], Velocity(xs), Velocity(ys), Acceleration(xs), Acceleration(ys),
          Jerk(xs), Jerk(ys), Snap(xs), Snap(ys)>>

solve_xyp_5s(phase, p, a, i, e, w) ==
    CHOOSE c \in {StencilCoefficients(f, a, i, e, w) :
                     f \in {StencilAnomalies(phase, p, e, w)}} : TRUE

(***************************************************************************)
(* The program as a state machine: a client calls the functions one at a   *)
(* time.  fn is the function entered last, pc its position, args its       *)
(* arguments, loc its locals, ret what it returned, table the orbit table  *)
(* the client keeps from solve_xyo_5s.                                     *)
(***************************************************************************)
VARIABLES fn, pc, args, loc, ret, table

vars == <<fn, pc, args, loc, ret, table>>

Empty == << >>

\* a call can start when no call is in progress
CanCall == pc = "idle"

(***************************************************************************)
(* Inputs                                                                  *)
(***************************************************************************)
\* the orbit of the specification's concrete scenario: circular, edge-on
CircularOrbit == [p |-> 3 * Scale, a |-> 7 * Scale, i |-> HALF_PI, e |-> 0, w |-> HALF_PI]

\* an eccentric, inclined orbit whose periastron offset Mo is negative
EccentricOrbit == [p |-> 3 * Scale, a |-> 7 * Scale, i |-> 1500, e |-> 600, w |-> 4000]

\* a mildly eccentric edge-on orbit with a positive periastron offset
WideOrbit == [p |-> 6 * Scale, a |-> 4 * Scale, i |-> HALF_PI, e |-> 300, w |-> 0]

Orbits == {CircularOrbit, EccentricOrbit, WideOrbit}

QuarterDay == Scale \div 4

Epochs == {0, QuarterDay}

MaxK == 3

KeplerTimes == {k * QuarterDay : k \in -MaxK..MaxK}

MaxLen == 2

\* a time series of n samples from start, forwards (dir = 1) or backwards
Series(start, n, dir) == [m \in 1..n |-> start + (m - 1) * dir * QuarterDay]

MaxQ == 2

TrueAnomalies == {q * HALF_PI + d : q \in -MaxQ..MaxQ, d \in {0, Scale \div 2}}

\* an orbit handed to the table builder with a negative period
NegativePeriodOrbit == [p |-> -3 * Scale, a |-> 7 * Scale, i |-> 1500, e |-> 300, w |-> Scale]

TableOrbits == Orbits \cup {NegativePeriodOrbit}

MaxNpt == 4

MaxT == 16

EvalTimes == {k * QuarterDay : k \in -MaxT..MaxT}

\* two expansions <<x0, y0, vx, vy, ax, ay, jx, jy, sx, sy>> of a planet
\* crossing the star, as the caller of the transit evaluators passes them
IngressState == <<-1750, 300, 7000, 0, 0, -400, -600, 0, 240, 0>>

EgressState == <<1750, 320, 7000, 0, 0, -420, -600, 0, 240, 0>>

MotionStates == {IngressState, EgressState}

TransitPeriods == {o.p : o \in Orbits}

MaxShift == 2

\* a float has MantBits significant bits: the counts below Grid are floats,
\* above them the floats thin out by powers of two
MantBits == 13

Grid == 2 ^ MantBits

MaxFar == 12

FarTimes == {sg * Grid * 2 ^ j : sg \in {-1, 1}, j \in 0..MaxFar}

Init ==
    /\ fn = "none"
    /\ pc = "idle"
    /\ args = Empty
    /\ loc = Empty
    /\ ret = Empty
    /\ table = Empty

(***************************************************************************)
(* orbit.py as actions                                                     *)
(***************************************************************************)
mean_anomaly_call(t, t0, o) ==
    /\ CanCall
    /\ fn' = "mean_anomaly"
    /\ pc' = "done"
    /\ args' = [t |-> t, t0 |-> t0, p |-> o.p, e |-> o.e, w |-> o.w]
    /\ loc' = [offset |-> mean_anomaly_offset(o.e, o.w)]
    /\ ret' = [outcome |-> "ok", Ma |-> mean_anomaly(t, t0, o.p, o.e, o.w)]
    /\ UNCHANGED table

ea_newton_s_call(t, t0, o) ==
    /\ CanCall
    /\ fn' = "ea_newton_s"
    /\ pc' = "while"
    /\ args' = [t |-> t, t0 |-> t0, p |-> o.p, e |-> o.e, w |-> o.w]
    /\ loc' = NewtonEntry(mean_anomaly(t, t0, o.p, o.e, o.w))
    /\ ret' = Empty
    /\ UNCHANGED table

ea_newton_s_iter ==
    /\ fn = "ea_newton_s"
    /\ pc = "while"
    /\ NewtonGuard(loc.err, loc.k)
    /\ loc' = NewtonBody(loc, args.e)
    /\ UNCHANGED <<fn, pc, args, ret, table>>

ea_newton_s_return ==
    /\ fn = "ea_newton_s"
    /\ pc = "while"
    /\ ~NewtonGuard(loc.err, loc.k)
    /\ pc' = "done"
    /\ ret' = [outcome |-> "ok", Ea |-> loc.Ea]
    /\ UNCHANGED <<fn, args, loc, table>>

\* the for-loop head with err and k set once before the loop, not per element
ElementEntryShared(l, j) == [l EXCEPT !.j = j]

\* the head of "for j in range(len(t))": element j (1-based here) is entered
\* with err = 0.05 and k = 0
ElementEntry(l, j) == [l EXCEPT !.j = j, !.err = InitErr, !.k = 0]

\* the body of the inner while loop on element l.j of the arrays
NewtonBodyV(l, e) ==
    LET j   == l.j
        err == l.Ea[j] - Mul(e, Sin(l.Ea[j])) - l.Ma[j]
    IN  [l EXCEPT !.err = err,
                  !.Ea[j] = l.Ea[j] - Div(err, Scale - Mul(e, Cos(l.Ea[j]))),
                  !.k = l.k + 1]

ea_newton_v_call(ts, t0, o) ==
    /\ CanCall
    /\ fn' = "ea_newton_v"
    /\ pc' = "for"
    /\ args' = [t |-> ts, t0 |-> t0, p |-> o.p, e |-> o.e, w |-> o.w]
    /\ LET Ma == [n \in 1..Len(ts) |-> mean_anomaly(ts[n], t0, o.p, o.e, o.w)]
       IN  loc' = [Ma |-> Ma, Ea |-> Ma, j |-> 0, err |-> InitErr, k |-> 0]
    /\ ret' = Empty
    /\ UNCHANGED table

ea_newton_v_for ==
    /\ fn = "ea_newton_v"
    /\ pc = "for"
    /\ loc.j < Len(args.t)
    /\ loc' = ElementEntry(loc, loc.j + 1)
    /\ pc' = "while"
    /\ UNCHANGED <<fn, args, ret, table>>

ea_newton_v_iter ==
    /\ fn = "ea_newton_v"
    /\ pc = "while"
    /\ NewtonGuard(loc.err, loc.k)
    /\ loc' = NewtonBodyV(loc, args.e)
    /\ UNCHANGED <<fn, pc, args, ret, table>>

ea_newton_v_next ==
    /\ fn = "ea_newton_v"
    /\ pc = "while"
    /\ ~NewtonGuard(loc.err, loc.k)
    /\ pc' = "for"
    /\ UNCHANGED <<fn, args, loc, ret, table>>

ea_newton_v_return ==
    /\ fn = "ea_newton_v"
    /\ pc = "for"
    /\ loc.j = Len(args.t)
    /\ pc' = "done"
    /\ ret' = [outcome |-> "ok", Ea |-> loc.Ea]
    /\ UNCHANGED <<fn, args, loc, table>>

z_from_ta_s_call(Ta, o) ==
    /\ CanCall
    /\ fn' = "z_from_ta_s"
    /\ pc' = "done"
    /\ args' = [Ta |-> Ta, a |-> o.a, i |-> o.i, e |-> o.e, w |-> o.w]
    /\ loc' = Empty
    /\ ret' = [outcome |-> "ok", z |-> z_from_ta_s(Ta, o.a, o.i, o.e, o.w)]
    /\ UNCHANGED table

\* the caller takes the returned value; the program is idle again
Resume ==
    /\ pc = "done"
    /\ fn # "solve_xyo_5s"
    /\ fn' = "none"
    /\ pc' = "idle"
    /\ args' = Empty
    /\ loc' = Empty
    /\ ret' = Empty
    /\ UNCHANGED table

NextKepler ==
    \/ Resume
    \/ \E t \in KeplerTimes, t0 \in Epochs, o \in Orbits : mean_anomaly_call(t, t0, o)
    \/ \E t \in KeplerTimes, t0 \in Epochs, o \in Orbits : ea_newton_s_call(t, t0, o)
    \/ ea_newton_s_iter
    \/ ea_newton_s_return
    \/ \E start \in KeplerTimes, n \in 0..MaxLen, dir \in {-1, 1}, t0 \in Epochs, o \in Orbits :
          ea_newton_v_call(Series(start, n, dir), t0, o)
    \/ ea_newton_v_for
    \/ ea_newton_v_iter
    \/ ea_newton_v_next
    \/ ea_newton_v_return
    \/ \E Ta \in TrueAnomalies, o \in Orbits : z_from_ta_s_call(Ta, o)

SpecKepler == Init /\ [][NextKepler]_vars


(***************************************************************************)
(* xy5.py as actions: the orbit table and its evaluator                    *)
(***************************************************************************)
\* numpy linspace(start, stop, num), num >= 2: num points, both ends included
linspace(start, stop, num) ==
    [k \in 1..num |-> start + RoundDiv((k - 1) * (stop - start), num - 1)]

\* numpy zeros((n, 10))
zeros(n) == [k \in 1..n |-> [c \in 1..10 |-> 0]]

\* the table left open: the last row stays as zeros() made it
LeaveOpen(coeffs) == coeffs

\* coeffs[-1] = coeffs[0]
CloseTable(coeffs) == [coeffs EXCEPT ![Len(coeffs)] = coeffs[1]]

solve_xyo_5s_call(o, npt) ==
    /\ CanCall
    /\ table = Empty
    /\ fn' = "solve_xyo_5s"
    /\ pc' = "for"
    /\ args' = [p |-> o.p, a |-> o.a, i |-> o.i, e |-> o.e, w |-> o.w, npt |-> npt]
    /\ LET points == linspace(0, o.p, npt)
       IN  loc' = [points |-> points, dt |-> points[2] - points[1],
                   coeffs |-> zeros(npt), ix |-> 0]
    /\ ret' = Empty
    /\ UNCHANGED table

\* one pass of "for ix in range(npt-1)" (ix counts from 0, sequences from 1)
solve_xyo_5s_row ==
    /\ fn = "solve_xyo_5s"
    /\ pc = "for"
    /\ loc.ix < args.npt - 1
    /\ loc' = [loc EXCEPT
                 !.coeffs[loc.ix + 1] =
                     solve_xyp_5s(loc.points[loc.ix + 1], args.p, args.a, args.i, args.e, args.w),
                 !.ix = loc.ix + 1]
    /\ UNCHANGED <<fn, pc, args, ret, table>>

solve_xyo_5s_return ==
    /\ fn = "solve_xyo_5s"
    /\ pc = "for"
    /\ loc.ix >= args.npt - 1
    /\ pc' = "done"
    /\ loc' = [loc EXCEPT !.coeffs = CloseTable(loc.coeffs)]
    /\ ret' = [outcome |-> "ok", dt |-> loc.dt, points |-> loc.points,
               coeffs |-> CloseTable(loc.coeffs)]
    /\ UNCHANGED <<fn, args, table>>

\* the caller keeps the table, with the period it was built for
KeepTable ==
    /\ pc = "done"
    /\ fn = "solve_xyo_5s"
    /\ table' = [p |-> args.p, npt |-> args.npt, dt |-> ret.dt,
                 points |-> ret.points, coeffs |-> ret.coeffs]
    /\ fn' = "none"
    /\ pc' = "idle"
    /\ args' = Empty
    /\ loc' = Empty
    /\ ret' = Empty

\* a/b rounded to the nearest integer, a tie to the even one
RoundEven(a, b) ==
    LET n == IF b < 0 THEN -a ELSE a
        d == Abs(b)
        q == n \div d
        r == n % d
    IN  IF 2 * r > d \/ (2 * r = d /\ q % 2 = 1) THEN q + 1 ELSE q

\* the spacing of the floats around x: the least power of two u >= u0 with
\* |x| < Grid*u (counts below Grid are exact)
RECURSIVE Ulp(_, _)
Ulp(x, u0) == IF Abs(x) < Grid * u0 THEN u0 ELSE Ulp(x, 2 * u0)

\* the float nearest to x
Fl(x) == RoundEven(x, Ulp(x, 1)) * Ulp(x, 1)

\* the spacing u >= 1 of the floats around d/p when |d/p| >= Grid/2
RECURSIVE QuotUlp(_, _, _)
QuotUlp(d, p, u) == IF Abs(d) < Grid * u * Abs(p) THEN u ELSE QuotUlp(d, p, 2 * u)

\* the spacing 1/m of the floats around d/p when |d/p| < Grid/2
RECURSIVE QuotBits(_, _, _)
QuotBits(d, p, m) == IF Abs(d) * 2 * m >= Grid * Abs(p) THEN m ELSE QuotBits(d, p, 2 * m)

\* floor((t - t0)/p) with d = t - t0: the quotient is rounded to a float first
FloorQuot(d, p) ==
    IF d = 0 THEN 0
    ELSE IF Abs(d) >= (Grid \div 2) * Abs(p)
         THEN RoundEven(d, p * QuotUlp(d, p, 1)) * QuotUlp(d, p, 1)
         ELSE Floor(RoundEven(d * QuotBits(d, p, 1), p), QuotBits(d, p, 1))

\* floor(tc/dt), the segment that contains tc
FloorIndex(tc, dt) == Floor(tc, dt)

\* int(floor(tc/dt + 0.5)), floored on the exact quotient
TableIndex(tc, dt) == Floor(2 * tc + dt, 2 * dt)

\* whether seq[ix] exists for a Python index ix (negative ones count from the end)
InBounds(ix, n) == -n <= ix /\ ix < n

\* seq[ix] for a Python index ix
Item(seq, ix) == IF ix >= 0 THEN seq[ix + 1] ELSE seq[Len(seq) + ix + 1]

\* x0 + vx tc + 0.5 ax tc^2 + jx tc^3/6 + sx tc^4/24, for x and for y; each
\* coefficient is divided before it is multiplied by the power of tc
Taylor(c, tc) ==
    LET tc2 == Mul(tc, tc)
        tc3 == Mul(tc2, tc)
        tc4 == Mul(tc3, tc)
        P(n) == c[n] + Mul(c[n + 2], tc) + Mul(RoundDiv(c[n + 4], 2), tc2)
                     + Mul(RoundDiv(c[n + 6], 6), tc3) + Mul(RoundDiv(c[n + 8], 24), tc4)
    IN  [px |-> P(1), py |-> P(2)]

\* xyo_5s(t, t0, p, dt, points, coeffs) on the kept table.  Each operation of
\* the fold rounds its result to a float; the index is floored on the exact
\* quotient tc/dt.  A negative index from -npt on counts from the end of the
\* table ("wrapped"): the row it reads is expanded far outside its segment,
\* to a value beyond the numbers of this model, which is not computed.  Any
\* other index outside 0..npt-1 reads outside the arrays ("out_of_bounds").
xyo_5s_call(t, t0) ==
    /\ CanCall
    /\ table # Empty
    /\ fn' = "xyo_5s"
    /\ pc' = "done"
    /\ args' = [t |-> t, t0 |-> t0, p |-> table.p, dt |-> table.dt,
                points |-> table.points, coeffs |-> table.coeffs]
    /\ \E d \in {Fl(t - t0)} :
       \E epoch \in {FloorQuot(d, table.p)} :
       \E tc \in {Fl(d - Fl(epoch * table.p))} :
       \E ix \in {TableIndex(tc, table.dt)} :
           IF ix \in 0..(Len(table.coeffs) - 1)
           THEN \E off \in {tc - Item(table.points, ix)} :
                \E xy \in {Taylor(Item(table.coeffs, ix), off)} :
                    /\ loc' = [epoch |-> epoch, tc |-> tc, ix |-> ix, off |-> off]
                    /\ ret' = [outcome |-> "ok", px |-> xy.px, py |-> xy.py]
           ELSE IF InBounds(ix, Len(table.coeffs))
           THEN /\ loc' = [epoch |-> epoch, tc |-> tc, ix |-> ix,
                           off |-> tc - Item(table.points, ix)]
                /\ ret' = [outcome |-> "wrapped"]
           ELSE /\ loc' = [epoch |-> epoch, tc |-> tc, ix |-> ix, off |-> 0]
                /\ ret' = [outcome |-> "out_of_bounds"]
    /\ UNCHANGED table

NextBuild ==
    \/ \E o \in TableOrbits, npt \in 2..MaxNpt : solve_xyo_5s_call(o, npt)
    \/ solve_xyo_5s_row
    \/ solve_xyo_5s_return
    \/ KeepTable
    \/ Resume

\* the table built and evaluated at times a few periods around the epoch,
\* where no operation of the fold rounds
NextTable ==
    \/ NextBuild
    \/ \E t \in EvalTimes, t0 \in Epochs : xyo_5s_call(t, t0)

SpecTable == Init /\ [][NextTable]_vars

\* the same with times far from the epoch as well, where the fold rounds
NextTableRound ==
    \/ NextBuild
    \/ \E t \in EvalTimes \cup FarTimes, t0 \in Epochs : xyo_5s_call(t, t0)

SpecTableRound == Init /\ [][NextTableRound]_vars

(***************************************************************************)
(* xy5.py as actions: the evaluators near transit                          *)
(***************************************************************************)
\* int((t - t0 + 0.5 p)/p): the quotient cut towards zero
TruncEpoch(t, t0, p) ==
    IF 2 * (t - t0) + p < 0 THEN -Floor(-(2 * (t - t0) + p), 2 * p)
    ELSE Floor(2 * (t - t0) + p, 2 * p)

\* floor((t - t0 + 0.5 p)/p)
TransitEpoch(t, t0, p) == Floor(2 * (t - t0) + p, 2 * p)

\* t - (t0 + epoch p)
TransitFold(t, t0, p) == t - (t0 + TransitEpoch(t, t0, p) * p)

\* the test "tc < 0.0" on the folded time
FoldedNegative(t, tc) == tc < 0

\* the test "t < 0.0" of pdt_25s, on the time as passed
UsesFirst(t, tc) == t < 0

\* sqrt(px**2 + py**2) of the expansion v at the offset tc
Distance(v, tc) ==
    LET xy == Taylor(v, tc)
    IN  Sqrt(Mul(xy.px, xy.px) + Mul(xy.py, xy.py))

xyt_15s(tc, t0, p, v) == Taylor(v, TransitFold(tc, t0, p))

pdt_15s(tc, t0, p, v) == Distance(v, TransitFold(tc, t0, p))

pdt_25s(t, t0, p, dt, v1, v2) ==
    IF UsesFirst(t, TransitFold(t, t0, p))
    THEN Distance(v1, TransitFold(t, t0, p) + dt)
    ELSE Distance(v2, TransitFold(t, t0, p) - dt)

xyt_15s_call(tc, t0, p, v) ==
    /\ CanCall
    /\ fn' = "xyt_15s"
    /\ pc' = "done"
    /\ args' = [tc |-> tc, t0 |-> t0, p |-> p, v |-> v]
    /\ loc' = [epoch |-> TransitEpoch(tc, t0, p), t |-> TransitFold(tc, t0, p)]
    /\ ret' = [outcome |-> "ok", px |-> xyt_15s(tc, t0, p, v).px,
               py |-> xyt_15s(tc, t0, p, v).py]
    /\ UNCHANGED table

pdt_15s_call(tc, t0, p, v) ==
    /\ CanCall
    /\ fn' = "pdt_15s"
    /\ pc' = "done"
    /\ args' = [tc |-> tc, t0 |-> t0, p |-> p, v |-> v]
    /\ loc' = [epoch |-> TransitEpoch(tc, t0, p), t |-> TransitFold(tc, t0, p)]
    /\ ret' = [outcome |-> "ok", d |-> pdt_15s(tc, t0, p, v)]
    /\ UNCHANGED table

\* loc.fold is tc as the fold leaves it, loc.tc is tc after "tc += dt" or
\* "tc -= dt", loc.use the expansion the branch unpacks
pdt_25s_call(t, t0, p, dt, v1, v2) ==
    /\ CanCall
    /\ fn' = "pdt_25s"
    /\ pc' = "done"
    /\ args' = [t |-> t, t0 |-> t0, p |-> p, dt |-> dt, v1 |-> v1, v2 |-> v2]
    /\ LET fold == TransitFold(t, t0, p)
       IN  IF UsesFirst(t, fold)
           THEN loc' = [epoch |-> TransitEpoch(t, t0, p), fold |-> fold,
                        use |-> "v1", tc |-> fold + dt]
           ELSE loc' = [epoch |-> TransitEpoch(t, t0, p), fold |-> fold,
                        use |-> "v2", tc |-> fold - dt]
    /\ ret' = [outcome |-> "ok", d |-> pdt_25s(t, t0, p, dt, v1, v2)]
    /\ UNCHANGED table

NextTransit ==
    \/ Resume
    \/ \E tc \in EvalTimes, t0 \in Epochs, p \in TransitPeriods, v \in MotionStates :
           xyt_15s_call(tc, t0, p, v)
    \/ \E tc \in EvalTimes, t0 \in Epochs, p \in TransitPeriods, v \in MotionStates :
           pdt_15s_call(tc, t0, p, v)
    \/ \E t \in EvalTimes, t0 \in Epochs, p \in TransitPeriods,
          v1 \in MotionStates, v2 \in MotionStates :
           pdt_25s_call(t, t0, p, QuarterDay, v1, v2)

SpecTransit == Init /\ [][NextTransit]_vars

(***************************************************************************)
(* Properties of the Kepler solver and the sky projection                  *)
(***************************************************************************)
\* the orbital radius a(1-e^2)/(1+e cos Ta) of z_from_ta_s
Radius(Ta, a, e) == Div(Mul(a, OneMinusE2(e)), Scale + Mul(e, Cos(Ta)))

\* C4: the Newton loop of ea_newton_s, and the per-element loop of
\* ea_newton_v, makes at least 1 and at most 1000 passes; when the residual
\* is still above the tolerance after 1000 passes the solver returns the last
\* iterate as a normal value.
C4_NewtonBounded ==
    fn \in {"ea_newton_s", "ea_newton_v"} =>
        /\ loc.k \in 0..MaxIter
        /\ (pc = "while" /\ loc.k = 0) => NewtonGuard(loc.err, loc.k)
        /\ (fn = "ea_newton_s" /\ pc = "done") =>
              /\ loc.k >= 1
              /\ Abs(loc.err) <= Tol \/ loc.k = MaxIter
              /\ ret = [outcome |-> "ok", Ea |-> loc.Ea]
        /\ (fn = "ea_newton_v" /\ pc = "for" /\ loc.j > 0) =>
              /\ loc.k >= 1
              /\ Abs(loc.err) <= Tol \/ loc.k = MaxIter
        /\ (fn = "ea_newton_v" /\ pc = "done") =>
              ret = [outcome |-> "ok", Ea |-> loc.Ea]

\* a solve that did not converge: it stopped at the cap and returned
C4_Witness ==
    /\ fn = "ea_newton_s"
    /\ pc = "done"
    /\ loc.k = MaxIter
    /\ Abs(loc.err) > Tol
    /\ ret.Ea = loc.Ea

\* C5: the i-th output of ea_newton_v is ea_newton_s of the i-th time,
\* whatever the other elements of the batch and their order.
C5_BatchIsScalar ==
    (fn = "ea_newton_v" /\ pc = "done") =>
        /\ Len(ret.Ea) = Len(args.t)
        /\ \A n \in 1..Len(args.t) :
              ret.Ea[n] = ea_newton_s(args.t[n], args.t0, args.p, args.e, args.w)

\* a batch of two different times on an eccentric orbit, both iterated
C5_Witness ==
    /\ fn = "ea_newton_v"
    /\ pc = "done"
    /\ Len(args.t) >= 2
    /\ args.e > 0
    /\ ret.Ea[1] # loc.Ma[1]
    /\ ret.Ea[2] # loc.Ma[2]
    /\ ret.Ea[1] # ret.Ea[2]

C7_ZeroAtSinZero ==
    (fn = "z_from_ta_s" /\ pc = "done") =>
        LET s == Sin(args.w + args.Ta)
        IN  /\ (ret.z = 0) <=> (s = 0)
            /\ (ret.z > 0) <=> (s > 0)

\* C7 as amended: z is signed by copysign, so z > 0 only where sin(w+Ta) >= 0
\* and z < 0 only where sin(w+Ta) <= 0; z = 0 exactly when
\* sin(w+Ta)^2 sin(i)^2 = 1; where sin(w+Ta) = 0 the magnitude of z is the
\* orbital radius a(1-e^2)/(1+e cos Ta), which is not 0.
C7_SignAndZero ==
    (fn = "z_from_ta_s" /\ pc = "done") =>
        LET s  == Sin(args.w + args.Ta)
            si == Sin(args.i)
            r  == Radius(args.Ta, args.a, args.e)
        IN  /\ ret.z > 0 => s >= 0
            /\ ret.z < 0 => s < 0
            /\ (ret.z = 0) <=> (Abs(s) = Scale /\ Abs(si) = Scale)
            /\ s = 0 => (r > 0 /\ Abs(ret.z) = r)

\* a call at sin(w+Ta) = 0: z is the whole orbital radius
C7_Witness ==
    /\ fn = "z_from_ta_s"
    /\ pc = "done"
    /\ Sin(args.w + args.Ta) = 0
    /\ ret.z # 0
(***************************************************************************)
(* Properties of the orbit table                                           *)
(***************************************************************************)
\* C1: for a table built with p > 0 and npt >= 2 and every t and t0, the
\* index ix that xyo_5s computes is a valid table index, 0 <= ix <= npt-1,
\* and no index outside the table is used on coeffs or points.
C1_IndexValid ==
    (fn = "xyo_5s" /\ pc = "done" /\ args.p > 0 /\ Len(args.coeffs) >= 2)
        => /\ loc.ix \in 0..(Len(args.coeffs) - 1)
           /\ ret.outcome = "ok"

\* C2: the table solve_xyo_5s returns has npt points and npt rows, its last
\* row equals its first row in all 10 components, and each row 0..npt-2 is
\* solve_xyp_5s at the point of the same index.
C2_TableClosed ==
    (fn = "solve_xyo_5s" /\ pc = "done" /\ args.npt >= 2)
        => /\ Len(ret.points) = args.npt
           /\ Len(ret.coeffs) = args.npt
           /\ \A c \in 1..10 : ret.coeffs[args.npt][c] = ret.coeffs[1][c]
           /\ \A k \in 1..(args.npt - 1) :
                  ret.coeffs[k] = solve_xyp_5s(ret.points[k], args.p, args.a, args.i,
                                               args.e, args.w)

\* a table of more than two rows has been returned, its rows 0 and 1 differ
\* and its closing row is not the zero row the table started with
C2_Witness ==
    /\ fn = "solve_xyo_5s"
    /\ pc = "done"
    /\ args.npt > 2
    /\ ret.coeffs[2] # ret.coeffs[1]
    /\ ret.coeffs[args.npt] # zeros(1)[1]

\* C3: building a table with p <= 0 or npt < 2 ends in the outcome
\* InvalidConfiguration and returns no table.
C3_InvalidConfiguration ==
    (fn = "solve_xyo_5s" /\ pc = "done" /\ (args.p <= 0 \/ args.npt < 2))
        => ret.outcome = "InvalidConfiguration"

C9_BranchOnTime ==
    (fn = "pdt_25s" /\ pc = "done")
        => /\ -args.p <= 2 * loc.fold /\ 2 * loc.fold < args.p
           /\ (args.t - args.t0 - loc.fold) % args.p = 0
           /\ loc.use \in {"v1", "v2"}
           /\ args.t < 0 => /\ loc.use = "v1"
                            /\ loc.tc = loc.fold + args.dt
                            /\ ret.d = Distance(args.v1, loc.fold + args.dt)
           /\ args.t >= 0 => /\ loc.use = "v2"
                             /\ loc.tc = loc.fold - args.dt
                             /\ ret.d = Distance(args.v2, loc.fold - args.dt)

\* a negative time that folds to a positive offset is evaluated on v1, and
\* v2 would have given another distance
C9_Witness ==
    /\ fn = "pdt_25s"
    /\ pc = "done"
    /\ args.t < 0
    /\ loc.fold > 0
    /\ loc.use = "v1"
    /\ ret.d # Distance(args.v2, loc.fold - args.dt)

\* C10 as stated: pdt_25s takes the same value at t and at t + k p for every
\* integer k, and the expansion used is v1 exactly when the folded time is
\* negative.
C10_Periodic ==
    (fn = "pdt_25s" /\ pc = "done")
        => /\ \A k \in -MaxShift..MaxShift :
                  pdt_25s(args.t + k * args.p, args.t0, args.p, args.dt, args.v1, args.v2)
                      = ret.d
           /\ loc.use = "v1" <=> loc.fold < 0

\* C10 as the code has it: pdt_25s takes the same value at t and at t + k p
\* whenever t and t + k p lie on the same side of zero, and the expansion
\* used is v1 exactly when the time passed is negative, whatever it folds
\* to; xyt_15s and pdt_15s take the same value at t and at t + k p for every
\* integer k.
C10_PeriodicOnOneSide ==
    /\ (fn = "pdt_25s" /\ pc = "done")
           => /\ \A k \in -MaxShift..MaxShift :
                     ((args.t + k * args.p < 0) <=> (args.t < 0))
                         => pdt_25s(args.t + k * args.p, args.t0, args.p, args.dt,
                                    args.v1, args.v2) = ret.d
              /\ loc.use = "v1" <=> args.t < 0
    /\ (fn = "pdt_15s" /\ pc = "done")
           => \A k \in -MaxShift..MaxShift :
                  pdt_15s(args.tc + k * args.p, args.t0, args.p, args.v) = ret.d
    /\ (fn = "xyt_15s" /\ pc = "done")
           => \A k \in -MaxShift..MaxShift :
                  /\ xyt_15s(args.tc + k * args.p, args.t0, args.p, args.v).px = ret.px
                  /\ xyt_15s(args.tc + k * args.p, args.t0, args.p, args.v).py = ret.py

\* pdt_25s has been called at a time more than a period before zero: one
\* period later the time is negative still, two periods later it is not and
\* the distance is another
C10_Witness ==
    /\ fn = "pdt_25s"
    /\ pc = "done"
    /\ args.t + args.p < 0
    /\ args.t + 2 * args.p >= 0
    /\ pdt_25s(args.t + 2 * args.p, args.t0, args.p, args.dt, args.v1, args.v2) # ret.d

=============================================================================
